---- MODULE Spec2Model ----
(***************************************************************************)
(* Session lifecycle (localStorage token / walletAddress, loginWithWallet, *)
(* checkAuthState, logout), request headers, the DatabaseEvents listener   *)
(* registry and the CreateBackground status polling effect.                *)
(***************************************************************************)
EXTENDS Integers, Sequences, FiniteSets, TLC

\* ------------------------------------------------------------------ bounds
NumCallers == 2          \* concurrent invocations of checkAuthState
MaxClockSteps == 1       \* how many times the wall clock advances
MaxId == 2               \* background ids handed out by the mint endpoint: 0..MaxId
MaxChecks == 3           \* status checks issued by the polling effect
MaxToasts == 2           \* notifications kept in the toast log
MaxListeners == 3        \* entries in one DatabaseEvents listener array
MaxGrown == 5            \* registrations of one event type an emit may leave behind

\* --------------------------------------------------------------- constants
None == "<absent>"       \* null / undefined / missing key
ClockStepMs == 60 * 1000
TenMinutesMs == 10 * 60 * 1000

Callers == 1..NumCallers

\* Stored bearer tokens, by shape.
Tokens == {"tFar", "tTen", "tNear", "tZero", "tNoExp", "tOpaque", "tBadPayload"}
\* Tokens the login endpoint hands out.
ServerTokens == {"tFar", "tTen"}
Addresses == {"0xAbC"}

\* token.split(".").length
SplitLength(token) ==
  IF token = "tOpaque" THEN 1 ELSE 3

\* JSON.parse(atob(parts[1])) succeeds
PayloadDecodes(token) ==
  token \in Tokens /\ token # "tBadPayload"

\* the decoded payload has an exp member
PayloadHasExp(token) ==
  token \in {"tFar", "tTen", "tNear", "tZero"}

\* payload.exp (seconds since epoch)
PayloadExp(token) ==
  CASE token = "tFar"  -> 3600
    [] token = "tTen"  -> 600
    [] token = "tNear" -> 30
    [] OTHER -> 0

\* JavaScript truthiness of a string or null
Truthy(v) ==
  v # None /\ v # ""

\* JavaScript truthiness of a number
TruthyNumber(n) ==
  n # 0

VARIABLES
  store,          \* localStorage: [token, walletAddress]
  now,            \* Date.now() in ms
  call,           \* per caller: the running checkAuthState invocation
  connect,        \* the last direct loginWithWallet(address, ..) call and its outcome
  mint,           \* handleSubmit's mint: "idle" | "inflight" | "reregistered" (it
                  \* settled by setting the id that was pending already)
  lastRequest,    \* the last request built by the API layer: [fn, token, authorization]
  mounted,        \* CreateBackground is mounted
  pendingBackgroundId,
  intervalId,     \* the live setInterval of the polling effect: NoTimer or [id, run]
  run,            \* number of polling effect runs that started a timer
  inflight,       \* status checks awaiting their response: set of [id, run, seq]
  checks,         \* number of status checks issued
  toasts,         \* notifications of checkBackgroundStatus: [kind, id, run, stale]
  listeners,      \* DatabaseEvents.listeners
  lastBus,        \* the last DatabaseEvents call: [op, type, handler, had, invoked, threw]
  wizard          \* BackgroundDetailsModal's state: [activeStep, transferType, ..]

authVars == <<store, now, call, connect, mint>>
pollVars == <<mounted, pendingBackgroundId, intervalId, run, inflight, checks, toasts>>
busVars == <<listeners, lastBus>>
vars == <<store, now, call, connect, mint, lastRequest, mounted, pendingBackgroundId,
          intervalId, run, inflight, checks, toasts, listeners, lastBus, wizard>>

\* ------------------------------------------------------------ SessionStore
EmptyStore == [token |-> None, walletAddress |-> None]

\* localStorage.setItem("token", ..); localStorage.setItem("walletAddress", ..)
StoreLogin(token, walletAddress) ==
  [token |-> token, walletAddress |-> walletAddress]

\* logout(): both keys removed
LogoutStore(s) ==
  [s EXCEPT !.token = None, !.walletAddress = None]

\* handleSubmit auth-failure cleanup: localStorage.removeItem("token")
CleanupStore(s) ==
  [s EXCEPT !.token = None]

\* --------------------------------------------------------- request headers
\* getToken(): null when the key is missing or empty
GetToken(s) ==
  IF ~Truthy(s.token) THEN None ELSE s.token

\* `${value}` in a template literal
TemplateString(v) ==
  IF v = None THEN "null" ELSE v

\* getAuthHeaders().Authorization, None when the header is omitted
GetAuthHeaders(s) ==
  IF Truthy(GetToken(s)) THEN "Bearer " \o TemplateString(GetToken(s)) ELSE None

\* headers: { Authorization: `Bearer ${localStorage.getItem("token")}` }
InlineBearerHeader(s) ==
  "Bearer " \o TemplateString(s.token)

\* request functions that pass headers: getAuthHeaders()
HeaderFns == {"verifyBackgroundStatus", "fetchGiftCards", "transferGiftCard",
              "claimGiftCard", "buyGiftCard", "getCurrentUser", "uploadImage"}
\* request functions that build the Authorization header inline
InlineFns == {"createGiftCard", "setGiftCardSecret"}

NoRequest == [fn |-> None, token |-> None, authorization |-> None]

\* ------------------------------------------------------------ server input
LoginResponses ==
  {[kind |-> "ok", token |-> t, error |-> None, message |-> None] : t \in ServerTokens}
  \cup {[kind |-> "ok", token |-> None, error |-> None, message |-> None],
        [kind |-> "http", token |-> None, error |-> "Invalid signature",
         message |-> "Request failed with status code 401"],
        [kind |-> "http", token |-> None, error |-> None,
         message |-> "Request failed with status code 500"],
        [kind |-> "network", token |-> None, error |-> None, message |-> "Network Error"]}

ProbeResponses ==
  {[kind |-> "ok", status |-> 200, body |-> b, message |-> None] :
      b \in {"user", "walletAddress", "empty"}}
  \cup {[kind |-> "http", status |-> 401, body |-> None,
         message |-> "Request failed with status code 401"],
        [kind |-> "http", status |-> 500, body |-> None,
         message |-> "Request failed with status code 500"],
        [kind |-> "network", status |-> 0, body |-> None, message |-> "Network Error"]}

\* --------------------------------------------------------- loginWithWallet
LoginSucceedsOnAnyBody(resp) ==
  resp.kind = "ok"

\* does the body of loginWithWallet reach `return response.data`
LoginSucceeds(resp) ==
  resp.kind = "ok" /\ Truthy(resp.token)

\* the message of the Error loginWithWallet throws
LoginErrorMessage(resp) ==
  IF resp.kind = "ok"
    THEN "Failed to login with wallet: Authentication failed: server response missing token"
  ELSE IF resp.kind = "http" /\ Truthy(resp.error)
    THEN "Login failed: " \o resp.error
  ELSE "Failed to login with wallet: " \o
         (IF Truthy(resp.message) THEN resp.message ELSE "Unknown error")

\* a direct call of loginWithWallet: the address it was given, the response its
\* POST settled with and the message of the Error it threw (None: it returned)
NoLoginResponse == [kind |-> None, token |-> None, error |-> None, message |-> None]

NoConnect ==
  [pc |-> "idle", walletAddress |-> None, response |-> NoLoginResponse,
   error |-> None]

LoginStoreFirstWriteWins(s, walletAddress, resp) ==
  IF LoginSucceeds(resp) /\ s.token \notin ServerTokens
    THEN StoreLogin(resp.token, walletAddress)
    ELSE s

LoginStoreNoWrite(s, walletAddress, resp) ==
  s

\* localStorage after loginWithWallet(walletAddress, ..) has handled resp
LoginStore(s, walletAddress, resp) ==
  IF LoginSucceeds(resp) THEN StoreLogin(resp.token, walletAddress) ELSE s

\* ---------------------------------------------------------- checkAuthState
NoResult == [isAuthenticated |-> FALSE, message |-> None]
Result(ok, msg) == [isAuthenticated |-> ok, message |-> msg]

NoProbe == [kind |-> None, status |-> 0, body |-> None, message |-> None]

\* refreshResponse is the token of the response loginWithWallet returned to this
\* call (response / refreshResponse in the source), None while none has returned
IdleCall ==
  [pc |-> "idle", hasToken |-> FALSE, walletAddress |-> None, soon |-> FALSE,
   logins |-> 0, probes |-> 0, probe |-> NoProbe, refreshResponse |-> None,
   result |-> NoResult]

MissingSessionBoth(token, walletAddress) ==
  ~Truthy(token) /\ ~Truthy(walletAddress)

\* if (!token || !walletAddress)
MissingSession(token, walletAddress) ==
  ~Truthy(token) \/ ~Truthy(walletAddress)

\* the token splits in three, its payload decodes and payload.exp is truthy
HasDecodedExp(token) ==
  /\ token \in Tokens
  /\ SplitLength(token) = 3
  /\ PayloadDecodes(token)
  /\ PayloadHasExp(token)
  /\ TruthyNumber(PayloadExp(token))

\* expiryDate.getTime() - now.getTime() < 10 * 60 * 1000
ExpiringSoon(token, t) ==
  HasDecodedExp(token) /\ PayloadExp(token) * 1000 - t < TenMinutesMs

ProbeBodyAcceptedUserOnly(resp) ==
  resp.body = "user"

\* the body of a successful GET /api/auth/me is accepted
ProbeBodyAccepted(resp) ==
  resp.body \in {"user", "walletAddress"}

\* error.message || "Unknown error"
MessageOrUnknown(msg) ==
  IF Truthy(msg) THEN msg ELSE "Unknown error"

StartCallStorageThrows(s, t, storageOk) ==
  IF ~storageOk
    THEN [IdleCall EXCEPT !.pc = "threw"]
  ELSE IF MissingSession(s.token, s.walletAddress)
    THEN [IdleCall EXCEPT !.pc = "done", !.hasToken = Truthy(s.token),
            !.walletAddress = s.walletAddress,
            !.result = Result(FALSE, "Not authenticated - please connect your wallet")]
  ELSE IF ExpiringSoon(s.token, t)
    THEN [IdleCall EXCEPT !.pc = "refresh1", !.hasToken = Truthy(s.token),
            !.walletAddress = s.walletAddress, !.soon = TRUE, !.logins = 1]
  ELSE [IdleCall EXCEPT !.pc = "probe", !.hasToken = Truthy(s.token),
          !.walletAddress = s.walletAddress, !.probes = 1]

StartCallRejectsUndecodable(s, t, storageOk) ==
  IF ~storageOk
    THEN [IdleCall EXCEPT !.pc = "done",
            !.result = Result(FALSE, "Authentication check failed: The operation is insecure.")]
  ELSE IF MissingSession(s.token, s.walletAddress)
    THEN [IdleCall EXCEPT !.pc = "done", !.hasToken = Truthy(s.token),
            !.walletAddress = s.walletAddress,
            !.result = Result(FALSE, "Not authenticated - please connect your wallet")]
  ELSE IF SplitLength(s.token) # 3 \/ ~PayloadDecodes(s.token)
    THEN [IdleCall EXCEPT !.pc = "done", !.hasToken = Truthy(s.token),
            !.walletAddress = s.walletAddress,
            !.result = Result(FALSE, "Authentication validation failed")]
  ELSE IF ExpiringSoon(s.token, t)
    THEN [IdleCall EXCEPT !.pc = "refresh1", !.hasToken = Truthy(s.token),
            !.walletAddress = s.walletAddress, !.soon = TRUE, !.logins = 1]
  ELSE [IdleCall EXCEPT !.pc = "probe", !.hasToken = Truthy(s.token),
          !.walletAddress = s.walletAddress, !.probes = 1]

\* checkAuthState up to its first await (or its return)
StartCall(s, t, storageOk) ==
  IF ~storageOk
    THEN [IdleCall EXCEPT !.pc = "done",
            !.result = Result(FALSE, "Authentication check failed: The operation is insecure.")]
  ELSE IF MissingSession(s.token, s.walletAddress)
    THEN [IdleCall EXCEPT !.pc = "done", !.hasToken = Truthy(s.token),
            !.walletAddress = s.walletAddress,
            !.result = Result(FALSE, "Not authenticated - please connect your wallet")]
  ELSE IF ExpiringSoon(s.token, t)
    THEN [IdleCall EXCEPT !.pc = "refresh1", !.hasToken = Truthy(s.token),
            !.walletAddress = s.walletAddress, !.soon = TRUE, !.logins = 1]
  ELSE [IdleCall EXCEPT !.pc = "probe", !.hasToken = Truthy(s.token),
          !.walletAddress = s.walletAddress, !.probes = 1]

\* the expiry branch after its loginWithWallet settled: return, or the decode
\* catch swallows the thrown error and the liveness probe is sent
AfterRefresh1(c, resp) ==
  IF LoginSucceeds(resp)
    THEN [c EXCEPT !.pc = "done", !.refreshResponse = resp.token,
            !.result = Result(TRUE, "Authentication refreshed successfully")]
    ELSE [c EXCEPT !.pc = "probe", !.probes = c.probes + 1]

AfterProbeRefreshesOnAnyStatus(c, resp) ==
  IF resp.kind = "ok"
    THEN IF ProbeBodyAccepted(resp)
           THEN [c EXCEPT !.pc = "done", !.probe = resp,
                   !.result = Result(TRUE, "Authentication validated successfully")]
           ELSE [c EXCEPT !.pc = "done", !.probe = resp,
                   !.result = Result(FALSE, "Authentication validation failed")]
  ELSE IF resp.kind = "http"
    THEN [c EXCEPT !.pc = "refresh2", !.probe = resp, !.logins = c.logins + 1]
  ELSE [c EXCEPT !.pc = "done", !.probe = resp,
          !.result = Result(FALSE, "Authentication validation failed: "
                                      \o MessageOrUnknown(resp.message))]

\* the liveness probe settled
AfterProbe(c, resp) ==
  IF resp.kind = "ok"
    THEN IF ProbeBodyAccepted(resp)
           THEN [c EXCEPT !.pc = "done", !.probe = resp,
                   !.result = Result(TRUE, "Authentication validated successfully")]
           ELSE [c EXCEPT !.pc = "done", !.probe = resp,
                   !.result = Result(FALSE, "Authentication validation failed")]
  ELSE IF resp.kind = "http" /\ resp.status = 401
    THEN [c EXCEPT !.pc = "refresh2", !.probe = resp, !.logins = c.logins + 1]
  ELSE [c EXCEPT !.pc = "done", !.probe = resp,
          !.result = Result(FALSE, "Authentication validation failed: "
                                      \o MessageOrUnknown(resp.message))]

AfterRefresh2AlwaysFails(c, resp) ==
  [c EXCEPT !.pc = "done",
     !.refreshResponse = IF LoginSucceeds(resp) THEN resp.token ELSE None,
     !.result = Result(FALSE, "Authentication validation failed: "
                                 \o MessageOrUnknown(c.probe.message))]

\* the refresh after a 401 probe settled
AfterRefresh2(c, resp) ==
  IF LoginSucceeds(resp)
    THEN [c EXCEPT !.pc = "done", !.refreshResponse = resp.token,
            !.result = Result(TRUE, "Authentication refreshed successfully")]
    ELSE [c EXCEPT !.pc = "done",
            !.result = Result(FALSE, "Authentication validation failed: "
                                        \o MessageOrUnknown(c.probe.message))]

\* ---------------------------------------------------- mint (handleSubmit)
Ids == 0..MaxId

MintResponses ==
  {[kind |-> "ok", id |-> i, transactionHash |-> h, warning |-> w,
    status |-> 200, error |-> None] : i \in Ids, h \in BOOLEAN, w \in BOOLEAN}
  \cup {[kind |-> "http", id |-> 0, transactionHash |-> FALSE, warning |-> FALSE,
         status |-> 401, error |-> None],
        [kind |-> "http", id |-> 0, transactionHash |-> FALSE, warning |-> FALSE,
         status |-> 403, error |-> "Invalid token"],
        [kind |-> "http", id |-> 0, transactionHash |-> FALSE, warning |-> FALSE,
         status |-> 400, error |-> "Insufficient funds"],
        [kind |-> "network", id |-> 0, transactionHash |-> FALSE, warning |-> FALSE,
         status |-> 0, error |-> None]}

MintFailures == {r \in MintResponses : r.kind # "ok"}
MintSuccesses == {r \in MintResponses : r.kind = "ok"}

\* the message of the Error mintBackgroundNFT throws for a failed request
MintErrorMessage(resp) ==
  IF resp.kind = "http" /\ resp.status = 401
    THEN "Authentication failed - please login again"
  ELSE IF resp.kind = "http" /\ Truthy(resp.error)
    THEN resp.error
  ELSE "Failed to mint background NFT"

\* errorMessage.includes("Invalid token") || .includes("Authentication failed")
\*   || .includes("token")
IsAuthErrorMessage(msg) ==
  msg \in {"Authentication failed - please login again", "Invalid token"}

\* localStorage after handleSubmit's catch block handled the mint error
MintFailureStore(s, resp) ==
  IF IsAuthErrorMessage(MintErrorMessage(resp)) THEN CleanupStore(s) ELSE s

\* ------------------------------------------- CreateBackground polling effect
NullId == 0 - 1                      \* pendingBackgroundId === null
NoTimer == [id |-> 0, run |-> 0]     \* no interval alive

\* if (pendingBackgroundId)
TruthyId(v) ==
  v # NullId /\ v # 0

StatusResponses == {"pending", "confirmed", "confirmedNoId", "failed", "unknown", "error"}

\* response.status === "confirmed" && response.background.blockchainId
IsConfirmed(status) ==
  status = "confirmed"

IsFailedOrThrew(status) ==
  status \in {"failed", "error"}

\* response.status === "failed"
IsFailed(status) ==
  status = "failed"

\* the notification checkBackgroundStatus publishes for a response; stale tells
\* that the effect run that sent the check had been cleaned up by then
ToastFor(chk, status, timer) ==
  [kind |-> IF IsConfirmed(status) THEN "success" ELSE "error",
   id |-> chk.id, run |-> chk.run, stale |-> timer.run # chk.run]

SetPendingKeepsOldTimer(v, infl) ==
  IF ~mounted \/ v = pendingBackgroundId
    THEN /\ inflight' = infl
         /\ UNCHANGED <<pendingBackgroundId, intervalId, run, checks>>
  ELSE IF TruthyId(v)
    THEN /\ pendingBackgroundId' = v
         /\ run' = run + 1
         /\ checks' = checks + 1
         /\ inflight' = infl \cup {[id |-> v, run |-> run + 1, seq |-> checks + 1]}
         /\ intervalId' = IF intervalId = NoTimer THEN [id |-> v, run |-> run + 1]
                                                  ELSE intervalId
  ELSE /\ pendingBackgroundId' = v
       /\ intervalId' = NoTimer
       /\ inflight' = infl
       /\ UNCHANGED <<run, checks>>

SetPendingAlwaysReruns(v, infl) ==
  IF ~mounted
    THEN /\ inflight' = infl
         /\ UNCHANGED <<pendingBackgroundId, intervalId, run, checks>>
  ELSE IF TruthyId(v)
    THEN /\ pendingBackgroundId' = v
         /\ run' = run + 1
         /\ checks' = checks + 1
         /\ inflight' = infl \cup {[id |-> v, run |-> run + 1, seq |-> checks + 1]}
         /\ intervalId' = [id |-> v, run |-> run + 1]
  ELSE /\ pendingBackgroundId' = v
       /\ intervalId' = NoTimer
       /\ inflight' = infl
       /\ UNCHANGED <<run, checks>>

SetPendingKeepsInterval(v, infl) ==
  IF ~mounted \/ v = pendingBackgroundId
    THEN /\ inflight' = infl
         /\ UNCHANGED <<pendingBackgroundId, intervalId, run, checks>>
  ELSE IF TruthyId(v)
    THEN /\ pendingBackgroundId' = v
         /\ run' = run + 1
         /\ checks' = checks + 1
         /\ inflight' = infl \cup {[id |-> v, run |-> run + 1, seq |-> checks + 1]}
         /\ intervalId' = [id |-> v, run |-> run + 1]
  ELSE /\ pendingBackgroundId' = v
       /\ inflight' = infl
       /\ UNCHANGED <<intervalId, run, checks>>

\* setPendingBackgroundId(v) with the effect it re-runs: the old effect's cleanup
\* clears its interval; a truthy id sends the initial check and starts an interval.
\* Nothing happens once unmounted or when the value is the current one.
SetPendingBackgroundId(v, infl) ==
  IF ~mounted \/ v = pendingBackgroundId
    THEN /\ inflight' = infl
         /\ UNCHANGED <<pendingBackgroundId, intervalId, run, checks>>
  ELSE IF TruthyId(v)
    THEN /\ pendingBackgroundId' = v
         /\ run' = run + 1
         /\ checks' = checks + 1
         /\ inflight' = infl \cup {[id |-> v, run |-> run + 1, seq |-> checks + 1]}
         /\ intervalId' = [id |-> v, run |-> run + 1]
  ELSE /\ pendingBackgroundId' = v
       /\ intervalId' = NoTimer
       /\ inflight' = infl
       /\ UNCHANGED <<run, checks>>

\* --------------------------------------------------------- DatabaseEvents
EventTypes == {"backgroundAdded", "backgroundUpdated"}
Handlers == {"hA", "hB", "hThrows"}

\* callbacks that call back into DatabaseEvents while an emit invokes them:
\* hSubscribes registers hB for the same event type, hUnsubscribes calls the
\* unsubscribe function of hB
ReentrantHandlers == {"hB", "hThrows", "hSubscribes", "hUnsubscribes"}

\* the last DatabaseEvents call: for an emit the callbacks it invoked, whether one
\* threw out of it, and how many registrations made during it are left at its end
NoBus == [op |-> None, type |-> None, handler |-> None, had |-> 0,
          invoked |-> <<>>, threw |-> FALSE, fresh |-> 0]

\* the callback calls on...(hB) when invoked
Subscribes(h) ==
  h = "hSubscribes"

\* the callback calls the function on...(hB) returned when invoked
Unsubscribes(h) ==
  h = "hUnsubscribes"

\* the callback throws when invoked
Throws(h) ==
  h = "hThrows"

\* occurrences of h in a listener array
Count(arr, h) ==
  Cardinality({i \in 1..Len(arr) : arr[i] = h})

\* this.listeners.X.push(callback)
AddListener(arr, h) ==
  Append(arr, h)

RemoveFirstListener(arr, h) ==
  IF Count(arr, h) = 0 THEN arr
  ELSE LET k == CHOOSE i \in 1..Len(arr) :
                  arr[i] = h /\ \A j \in 1..(i - 1) : arr[j] # h
       IN SubSeq(arr, 1, k - 1) \o SubSeq(arr, k + 1, Len(arr))

\* this.listeners.X.filter((cb) => cb !== callback)
RemoveListener(arr, h) ==
  SelectSeq(arr, LAMBDA cb : cb # h)

\* arr.forEach((callback) => callback(background)) from index i on. it is the
\* loop's state: arr the array object being iterated, len its length when forEach
\* began (later elements are not visited), cur the value of this.listeners.X and
\* same whether cur still is that object (push appends to cur in place, filter
\* replaces cur by a new array). The result: the callbacks invoked, in order,
\* whether one of them threw out of the loop, and this.listeners.X at the end
RECURSIVE ForEachFrom(_, _, _)
ForEachFrom(it, i, invoked) ==
  IF i > it.len
    THEN [invoked |-> invoked, threw |-> FALSE, listeners |-> it.cur,
          fresh |-> it.fresh]
  ELSE IF Throws(it.arr[i])
    THEN [invoked |-> Append(invoked, it.arr[i]), threw |-> TRUE,
          listeners |-> it.cur, fresh |-> it.fresh]
  ELSE IF Subscribes(it.arr[i])
    THEN ForEachFrom([it EXCEPT !.cur = AddListener(it.cur, "hB"),
                                !.arr = IF it.same THEN AddListener(it.arr, "hB")
                                                   ELSE it.arr,
                                !.fresh = it.fresh + 1],
                     i + 1, Append(invoked, it.arr[i]))
  ELSE IF Unsubscribes(it.arr[i])
    THEN ForEachFrom([it EXCEPT !.cur = RemoveListener(it.cur, "hB"),
                                !.same = FALSE, !.fresh = 0],
                     i + 1, Append(invoked, it.arr[i]))
  ELSE ForEachFrom(it, i + 1, Append(invoked, it.arr[i]))

ForEach(arr) ==
  ForEachFrom([arr |-> arr, len |-> Len(arr), cur |-> arr, same |-> TRUE,
               fresh |-> 0], 1, <<>>)

\* ------------------------------------------------- BackgroundDetailsModal
\* const steps = ['Select Option', 'Details', 'Confirm']
steps == <<"Select Option", "Details", "Confirm">>

\* the two transfer-type buttons of step 0
TransferTypes == {"direct", "giftcard"}

\* what the Recipient Address field can hold: nothing, text that is no
\* address, another wallet's address, the user's own address in other case
RecipientInputs == {"", "notAnAddress", "0xRecipient", "0xABC"}

\* what the Secret Key field can hold
SecretInputs == {"", "s3cret"}

\* useWallet().address: undefined while no wallet is connected
UserAddresses == {None, "0xAbC"}

\* what the awaited gift card calls of handleTransferGiftCard end in: success,
\* or the message the catch block shows
TransferOutcomes ==
  {"ok", "API server is not responding. Please check if the server is running.",
   "Failed to create gift card"}

\* ethers.utils.isAddress
IsAddress(a) == a \in {"0xRecipient", "0xABC", "0xAbC"}

\* String.prototype.toLowerCase
ToLowerCase(a) ==
  CASE a = "0xABC" -> "0xabc"
    [] a = "0xAbC" -> "0xabc"
    [] a = "0xRecipient" -> "0xrecipient"
    [] a = "notAnAddress" -> "notanaddress"
    [] OTHER -> a

\* JavaScript truthiness of a string | null | undefined
TruthyText(v) == v # None /\ v # ""

\* the useState initial values
InitWizard ==
  [activeStep |-> 0, transferType |-> None, recipientAddress |-> "",
   secretKey |-> "", error |-> None, isLoading |-> FALSE]

\* handleTransferGiftCard up to its first await: seen is the render whose
\* closure runs, w the state its setters update
HandleTransferGiftCard(seen, w, userAddress) ==
  IF ~TruthyText(userAddress)
    THEN [w EXCEPT !.error = "Please connect your wallet"]
  ELSE IF seen.transferType = "direct" /\ ~TruthyText(seen.recipientAddress)
    THEN [w EXCEPT !.error = "Please enter a recipient address"]
  ELSE IF seen.transferType = "direct" /\ ~IsAddress(seen.recipientAddress)
    THEN [w EXCEPT !.error = "Please enter a valid recipient address"]
  ELSE IF /\ seen.transferType = "direct"
          /\ ToLowerCase(seen.recipientAddress) = ToLowerCase(userAddress)
    THEN [w EXCEPT !.error = "You cannot transfer to your own address"]
  ELSE IF seen.transferType = "giftcard" /\ ~TruthyText(seen.secretKey)
    THEN [w EXCEPT !.error = "Please enter a secret key"]
  ELSE [w EXCEPT !.isLoading = TRUE, !.error = None]

\* handleNext: the conditions read the values of the render the handler was
\* created in (seen); the setters update the current state (w)
HandleNext(seen, w, userAddress) ==
  IF seen.activeStep = 0 /\ ~TruthyText(seen.transferType)
    THEN [w EXCEPT !.error = "Please select a transfer type"]
  ELSE IF /\ seen.activeStep = 1
          /\ seen.transferType = "direct"
          /\ ~TruthyText(seen.recipientAddress)
    THEN [w EXCEPT !.error = "Please enter a recipient address"]
  ELSE IF /\ seen.activeStep = 1
          /\ seen.transferType = "direct"
          /\ ~IsAddress(seen.recipientAddress)
    THEN [w EXCEPT !.error = "Please enter a valid Ethereum address"]
  ELSE IF /\ seen.activeStep = 1
          /\ seen.transferType = "giftcard"
          /\ ~TruthyText(seen.secretKey)
    THEN [w EXCEPT !.error = "Please enter a secret key"]
  ELSE IF seen.activeStep = 2
    THEN HandleTransferGiftCard(seen, w, userAddress)
  ELSE [w EXCEPT !.error = None, !.activeStep = w.activeStep + 1]

\* handleBack
HandleBack(w) == [w EXCEPT !.activeStep = w.activeStep - 1, !.error = None]

\* -------------------------------------------------------------------- Init
Init ==
  /\ store \in {EmptyStore} \cup {StoreLogin(t, a) : t \in Tokens, a \in Addresses}
  /\ now = 0
  /\ call = [c \in Callers |-> IdleCall]
  /\ connect = NoConnect
  /\ mint = "idle"
  /\ lastRequest = NoRequest
  /\ mounted = TRUE
  /\ pendingBackgroundId = NullId
  /\ intervalId = NoTimer
  /\ run = 0
  /\ inflight = {}
  /\ checks = 0
  /\ toasts = <<>>
  /\ listeners = [t \in EventTypes |-> <<>>]
  /\ lastBus = NoBus
  /\ wizard = InitWizard

\* ----------------------------------------------------------------- actions
\* new Date() moves on
AdvanceClock ==
  /\ now < MaxClockSteps * ClockStepMs
  /\ now' = now + ClockStepMs
  /\ UNCHANGED <<store, call, connect, mint, lastRequest, pollVars, busVars, wizard>>

\* checkAuthState() is called and runs to its first await or to its return
CheckAuthState(c) ==
  /\ call[c].pc \in {"idle", "done"}
  /\ \E storageOk \in BOOLEAN :
       call' = [call EXCEPT ![c] = StartCall(store, now, storageOk)]
  /\ UNCHANGED <<store, now, connect, mint, lastRequest, pollVars, busVars, wizard>>

\* POST /api/auth/login of the expiry branch settles
RefreshResponse1(c) ==
  /\ call[c].pc = "refresh1"
  /\ \E resp \in LoginResponses :
       /\ store' = LoginStore(store, call[c].walletAddress, resp)
       /\ call' = [call EXCEPT ![c] = AfterRefresh1(call[c], resp)]
  /\ UNCHANGED <<now, connect, mint, lastRequest, pollVars, busVars, wizard>>

\* GET /api/auth/me settles
ProbeResponse(c) ==
  /\ call[c].pc = "probe"
  /\ \E resp \in ProbeResponses :
       call' = [call EXCEPT ![c] = AfterProbe(call[c], resp)]
  /\ UNCHANGED <<store, now, connect, mint, lastRequest, pollVars, busVars, wizard>>

\* POST /api/auth/login of the 401 branch settles
RefreshResponse2(c) ==
  /\ call[c].pc = "refresh2"
  /\ \E resp \in LoginResponses :
       /\ store' = LoginStore(store, call[c].walletAddress, resp)
       /\ call' = [call EXCEPT ![c] = AfterRefresh2(call[c], resp)]
  /\ UNCHANGED <<now, connect, mint, lastRequest, pollVars, busVars, wizard>>

\* loginWithWallet(address, signature) called by the wallet integration
ConnectStart ==
  /\ connect.pc # "inflight"
  /\ \E a \in Addresses :
       connect' = [NoConnect EXCEPT !.pc = "inflight", !.walletAddress = a]
  /\ UNCHANGED <<store, now, call, mint, lastRequest, pollVars, busVars, wizard>>

\* its POST /api/auth/login settles
ConnectResponse ==
  /\ connect.pc = "inflight"
  /\ \E resp \in LoginResponses :
       /\ store' = LoginStore(store, connect.walletAddress, resp)
       /\ connect' = [connect EXCEPT !.pc = "settled", !.response = resp,
                        !.error = IF LoginSucceeds(resp) THEN None
                                    ELSE LoginErrorMessage(resp)]
  /\ UNCHANGED <<now, call, mint, lastRequest, pollVars, busVars, wizard>>

\* logout()
Logout ==
  /\ store' = LogoutStore(store)
  /\ UNCHANGED <<now, call, connect, mint, lastRequest, pollVars, busVars, wizard>>

\* handleSubmit reaches mintBackgroundNFT: it throws before any request when the
\* token or the wallet address is missing, otherwise the mint request is sent
MintRequest ==
  /\ mint # "inflight"
  /\ mint' = IF Truthy(GetToken(store)) /\ Truthy(store.walletAddress)
               THEN "inflight" ELSE "idle"
  /\ UNCHANGED <<store, now, call, connect, lastRequest, pollVars, busVars, wizard>>

\* the mint request settles and handleSubmit runs on: a minted background with a
\* transaction hash becomes the pending id, an authentication error clears the token
MintResponse(resp) ==
  /\ mint = "inflight"
  /\ mint' = IF /\ resp.kind = "ok" /\ ~resp.warning /\ resp.transactionHash
                /\ mounted /\ TruthyId(resp.id) /\ resp.id = pendingBackgroundId
               THEN "reregistered" ELSE "idle"
  /\ IF resp.kind = "ok"
       THEN /\ store' = store
            /\ IF ~resp.warning /\ resp.transactionHash
                 THEN /\ checks < MaxChecks
                      /\ SetPendingBackgroundId(resp.id, inflight)
                 ELSE UNCHANGED <<pendingBackgroundId, intervalId, run, inflight, checks>>
       ELSE /\ store' = MintFailureStore(store, resp)
            /\ UNCHANGED <<pendingBackgroundId, intervalId, run, inflight, checks>>
  /\ UNCHANGED <<now, call, connect, lastRequest, mounted, toasts, busVars, wizard>>

MintFailed ==
  \E resp \in MintFailures : MintResponse(resp)

MintSucceeded ==
  \E resp \in MintSuccesses : MintResponse(resp)

\* a request function that passes headers: getAuthHeaders()
AuthenticatedRequest(fn) ==
  /\ lastRequest' = [fn |-> fn, token |-> store.token,
                      authorization |-> GetAuthHeaders(store)]
  /\ UNCHANGED <<authVars, pollVars, busVars, wizard>>

\* createGiftCard / setGiftCardSecret
InlineHeaderRequest(fn) ==
  /\ lastRequest' = [fn |-> fn, token |-> store.token,
                      authorization |-> InlineBearerHeader(store)]
  /\ UNCHANGED <<authVars, pollVars, busVars, wizard>>

\* the interval of the polling effect fires
Tick ==
  /\ intervalId # NoTimer
  /\ checks < MaxChecks
  /\ checks' = checks + 1
  /\ inflight' = inflight \cup
       {[id |-> intervalId.id, run |-> intervalId.run, seq |-> checks + 1]}
  /\ UNCHANGED <<authVars, lastRequest, mounted, pendingBackgroundId, intervalId, run,
                 toasts, busVars, wizard>>

\* verifyBackgroundStatus settles and checkBackgroundStatus runs on
CheckResponse(chk, status) ==
  /\ chk \in inflight
  /\ IF IsConfirmed(status) \/ IsFailed(status)
       THEN /\ Len(toasts) < MaxToasts
            /\ toasts' = Append(toasts, ToastFor(chk, status, intervalId))
            /\ SetPendingBackgroundId(NullId, inflight \ {chk})
       ELSE /\ inflight' = inflight \ {chk}
            /\ UNCHANGED <<toasts, pendingBackgroundId, intervalId, run, checks>>
  /\ UNCHANGED <<authVars, lastRequest, mounted, busVars, wizard>>

StatusResponse ==
  \E chk \in inflight : \E status \in StatusResponses : CheckResponse(chk, status)

UnmountLeavesInterval ==
  /\ mounted
  /\ mounted' = FALSE
  /\ UNCHANGED <<authVars, lastRequest, pendingBackgroundId, intervalId, run, inflight,
                 checks, toasts, busVars, wizard>>

\* CreateBackground unmounts: the effect's cleanup clears the interval
Unmount ==
  /\ mounted
  /\ mounted' = FALSE
  /\ intervalId' = NoTimer
  /\ UNCHANGED <<authVars, lastRequest, pendingBackgroundId, run, inflight, checks,
                 toasts, busVars, wizard>>

\* DatabaseEvents.onBackgroundAdded / onBackgroundUpdated
On(type, h) ==
  /\ Len(listeners[type]) < MaxListeners
  /\ listeners' = [listeners EXCEPT ![type] = AddListener(listeners[type], h)]
  /\ lastBus' = [op |-> "on", type |-> type, handler |-> h,
                 had |-> Count(listeners[type], h), invoked |-> <<>>, threw |-> FALSE,
                 fresh |-> 0]
  /\ UNCHANGED <<authVars, lastRequest, pollVars, wizard>>

\* DatabaseEvents.offBackgroundAdded / offBackgroundUpdated, also the function
\* returned by on...
Off(type, h) ==
  /\ listeners' = [listeners EXCEPT ![type] = RemoveListener(listeners[type], h)]
  /\ lastBus' = [op |-> "off", type |-> type, handler |-> h,
                 had |-> Count(listeners[type], h), invoked |-> <<>>, threw |-> FALSE,
                 fresh |-> 0]
  /\ UNCHANGED <<authVars, lastRequest, pollVars, wizard>>

\* DatabaseEvents.emitBackgroundAdded / emitBackgroundUpdated
Emit(type) ==
  /\ Len(ForEach(listeners[type]).listeners) <= MaxGrown
  /\ lastBus' = [op |-> "emit", type |-> type, handler |-> None, had |-> 0,
                 invoked |-> ForEach(listeners[type]).invoked,
                 threw |-> ForEach(listeners[type]).threw,
                 fresh |-> ForEach(listeners[type]).fresh]
  /\ listeners' = [listeners EXCEPT ![type] = ForEach(listeners[type]).listeners]
  /\ UNCHANGED <<authVars, lastRequest, pollVars, wizard>>

OnBackgroundAdded == \E h \in Handlers : On("backgroundAdded", h)
OnBackgroundUpdated == \E h \in Handlers : On("backgroundUpdated", h)
OffBackgroundAdded == \E h \in Handlers : Off("backgroundAdded", h)
OffBackgroundUpdated == \E h \in Handlers : Off("backgroundUpdated", h)
EmitBackgroundAdded == Emit("backgroundAdded")
EmitBackgroundUpdated == Emit("backgroundUpdated")

\* ---------------------------------------------------------- specifications
\* the session lifecycle: checkAuthState callers, logout and the mint cleanup
Next ==
  \/ AdvanceClock
  \/ \E c \in Callers : CheckAuthState(c)
  \/ \E c \in Callers : RefreshResponse1(c)
  \/ \E c \in Callers : ProbeResponse(c)
  \/ \E c \in Callers : RefreshResponse2(c)
  \/ Logout
  \/ MintRequest
  \/ MintFailed

Spec == Init /\ [][Next]_vars

\* the requests the API layer builds, direct logins included
HeaderNext ==
  \/ \E fn \in HeaderFns : AuthenticatedRequest(fn)
  \/ \E fn \in InlineFns : InlineHeaderRequest(fn)
  \/ ConnectStart
  \/ ConnectResponse
  \/ Logout
  \/ MintRequest
  \/ MintFailed

HeaderSpec == Init /\ [][HeaderNext]_vars

\* the status polling of CreateBackground
PollNext ==
  \/ MintRequest
  \/ MintSucceeded
  \/ Tick
  \/ StatusResponse
  \/ Unmount

\* the view is opened by a user whose session is stored
PollInit == Init /\ store = StoreLogin("tFar", "0xAbC")

PollSpec == PollInit /\ [][PollNext]_vars

\* the DatabaseEvents registry
BusNext ==
  \/ OnBackgroundAdded
  \/ OnBackgroundUpdated
  \/ OffBackgroundAdded
  \/ OffBackgroundUpdated
  \/ EmitBackgroundAdded
  \/ EmitBackgroundUpdated

BusInit == Init /\ store = EmptyStore

BusSpec == BusInit /\ [][BusNext]_vars

\* the DatabaseEvents registry with callbacks that subscribe and unsubscribe
\* while an emit invokes them
SubscribeReentrant == \E h \in ReentrantHandlers : On("backgroundAdded", h)
UnsubscribeReentrant == \E h \in ReentrantHandlers : Off("backgroundAdded", h)

ReentrantNext ==
  \/ SubscribeReentrant
  \/ UnsubscribeReentrant
  \/ EmitBackgroundAdded

ReentrantSpec == BusInit /\ [][ReentrantNext]_vars

\* --------------------------------------------- BackgroundDetailsModal steps
\* a transfer-type button of step 0: onClick sets transferType and calls the
\* handleNext of the render the button belongs to
ClickTransferType(t) ==
  /\ wizard.activeStep = 0
  /\ \E userAddress \in UserAddresses :
       wizard' = HandleNext(wizard, [wizard EXCEPT !.transferType = t], userAddress)
  /\ UNCHANGED <<authVars, lastRequest, pollVars, busVars>>

\* the Next button, rendered on every step but the last
ClickNext ==
  /\ wizard.activeStep # Len(steps) - 1
  /\ \E userAddress \in UserAddresses :
       wizard' = HandleNext(wizard, wizard, userAddress)
  /\ UNCHANGED <<authVars, lastRequest, pollVars, busVars>>

\* the Back button, rendered when activeStep > 0
ClickBack ==
  /\ wizard.activeStep > 0
  /\ wizard' = HandleBack(wizard)
  /\ UNCHANGED <<authVars, lastRequest, pollVars, busVars>>

\* the Recipient Address field of step 1, shown for a direct transfer
SetRecipientAddress ==
  /\ wizard.activeStep = 1
  /\ wizard.transferType = "direct"
  /\ \E a \in RecipientInputs : wizard' = [wizard EXCEPT !.recipientAddress = a]
  /\ UNCHANGED <<authVars, lastRequest, pollVars, busVars>>

\* the Secret Key field of step 1, shown otherwise
SetSecretKey ==
  /\ wizard.activeStep = 1
  /\ wizard.transferType # "direct"
  /\ \E k \in SecretInputs : wizard' = [wizard EXCEPT !.secretKey = k]
  /\ UNCHANGED <<authVars, lastRequest, pollVars, busVars>>

\* the button of the last step, disabled while isLoading
ClickTransfer ==
  /\ wizard.activeStep = Len(steps) - 1
  /\ ~wizard.isLoading
  /\ \E userAddress \in UserAddresses :
       wizard' = HandleTransferGiftCard(wizard, wizard, userAddress)
  /\ UNCHANGED <<authVars, lastRequest, pollVars, busVars>>

\* the awaited calls of handleTransferGiftCard settle: catch sets the error,
\* finally clears isLoading
TransferSettles ==
  /\ wizard.isLoading
  /\ \E outcome \in TransferOutcomes :
       wizard' = [wizard EXCEPT !.isLoading = FALSE,
                                !.error = IF outcome = "ok" THEN @ ELSE outcome]
  /\ UNCHANGED <<authVars, lastRequest, pollVars, busVars>>

ClickDirect == ClickTransferType("direct")
ClickGiftcard == ClickTransferType("giftcard")

WizardNext ==
  \/ ClickDirect
  \/ ClickGiftcard
  \/ ClickNext
  \/ ClickBack
  \/ SetRecipientAddress
  \/ SetSecretKey
  \/ ClickTransfer
  \/ TransferSettles

WizardSpec == BusInit /\ [][WizardNext]_vars

\* a status check is answered with anything but a terminal status
NonTerminalResponse ==
  \E chk \in inflight : \E status \in StatusResponses :
    /\ ~(IsConfirmed(status) \/ IsFailed(status))
    /\ CheckResponse(chk, status)

\* the status polling under fair scheduling: an interval that is not cleared
\* keeps firing, and a status request that was sent settles
PollLiveSpec ==
  /\ PollInit
  /\ [][PollNext]_vars
  /\ WF_vars(Tick)
  /\ WF_vars(StatusResponse)

\* ------------------------------------------------------------------ claims
\* the messages loginWithWallet can throw
RefreshErrorMessages ==
  {LoginErrorMessage(resp) : resp \in {r \in LoginResponses : ~LoginSucceeds(r)}}

\* C1: a checkAuthState call that found the token or the wallet address missing
\* has returned isAuthenticated = false and has sent neither a probe nor a login.
C1_MissingSessionNoNetwork ==
  \A c \in Callers :
    (call[c].pc # "idle" /\ (~call[c].hasToken \/ call[c].walletAddress = None))
      => /\ call[c].pc = "done"
         /\ ~call[c].result.isAuthenticated
         /\ call[c].logins = 0
         /\ call[c].probes = 0

\* C1 witness: the wallet address is stored, the token is not, and the call returned
C1_Witness ==
  \E c \in Callers :
    /\ call[c].pc = "done"
    /\ ~call[c].hasToken
    /\ call[c].walletAddress # None
    /\ call[c].result = Result(FALSE, "Not authenticated - please connect your wallet")

\* C2: a call that took the expiry branch sent a login, and its refresh decides the
\* result: true when it succeeded, false with the refresh error's message when it
\* failed (so the call is either still awaiting the refresh or has returned).
C2_RefreshDecides ==
  \A c \in Callers :
    call[c].soon
      => /\ call[c].logins >= 1
         /\ call[c].pc \in {"refresh1", "done"}
         /\ call[c].pc = "done"
              => \/ call[c].result.isAuthenticated
                 \/ call[c].result.message \in RefreshErrorMessages

\* C3: one checkAuthState call sends at most one probe and at most one login,
\* at most two requests in all.
C3_AtMostTwoRequests ==
  \A c \in Callers :
    /\ call[c].probes <= 1
    /\ call[c].logins <= 1
    /\ call[c].probes + call[c].logins <= 2

\* C4: the token key and the walletAddress key are both present or both absent.
C4_TokenAndAddressTogether ==
  (store.token = None) <=> (store.walletAddress = None)

\* C5: the response of a status check whose effect run was cancelled before it
\* arrived is discarded: it publishes nothing and changes no poller state.
C5_StaleResponseDiscarded ==
  [][\A chk \in inflight :
       (chk \notin inflight' /\ chk.run # intervalId.run)
         => /\ toasts' = toasts
            /\ pendingBackgroundId' = pendingBackgroundId
            /\ intervalId' = intervalId]_vars

\* C6: at most one terminal notification is published per polled operation.
C6_AtMostOneTerminalToast ==
  \A i, j \in 1..Len(toasts) :
    toasts[i].run = toasts[j].run => i = j

\* C7: an emit to several handlers, one of which throws, invokes every registered
\* handler and does not throw.
C7_ThrowingHandlerIsolated ==
  (lastBus.op = "emit" /\ Len(listeners[lastBus.type]) >= 2)
    => /\ ~lastBus.threw
       /\ lastBus.invoked = listeners[lastBus.type]

\* C8 as stated: a subscribe adds one registration, and one unsubscribe of a handler
\* registered twice leaves it registered once.
C8_OneUnsubscribeLeavesOne ==
  /\ lastBus.op = "on"
       => Count(listeners[lastBus.type], lastBus.handler) = lastBus.had + 1
  /\ (lastBus.op = "off" /\ lastBus.had = 2)
       => Count(listeners[lastBus.type], lastBus.handler) = 1

\* C8 amended: a subscribe adds one registration (the same handler may be registered
\* twice); one unsubscribe removes every registration of the handler; an emit invokes
\* the registrations in order, each once, all of them unless a handler throws.
C8_OneUnsubscribeRemovesAll ==
  /\ lastBus.op = "on"
       => Count(listeners[lastBus.type], lastBus.handler) = lastBus.had + 1
  /\ lastBus.op = "off"
       => Count(listeners[lastBus.type], lastBus.handler) = 0
  /\ lastBus.op = "emit"
       => /\ Len(lastBus.invoked) <= Len(listeners[lastBus.type])
          /\ lastBus.invoked = SubSeq(listeners[lastBus.type], 1, Len(lastBus.invoked))
          /\ ~lastBus.threw => lastBus.invoked = listeners[lastBus.type]

\* C8 witness: a handler registered twice has just been unsubscribed once
C8_Witness ==
  /\ lastBus.op = "off"
  /\ lastBus.had = 2
  /\ Count(listeners[lastBus.type], lastBus.handler) = 0

\* C9: a request carries "Bearer <token>" when a token is stored and no
\* Authorization header when none is stored.
C9_AuthorizationHeader ==
  lastRequest.fn # None
    => lastRequest.authorization =
         (IF lastRequest.token # None THEN "Bearer " \o lastRequest.token ELSE None)

\* C10 as stated: a locally valid session whose probe succeeded is authenticated,
\* whatever the body.
C10_ProbeSuccessIsAuthenticated ==
  \A c \in Callers :
    (call[c].pc = "done" /\ ~call[c].soon /\ call[c].probe.kind = "ok")
      => call[c].result.isAuthenticated

\* C10 amended: after a successful probe the call returns at once, authenticated
\* exactly when the body holds a user or a walletAddress.
C10_ProbeSuccessNeedsIdentity ==
  \A c \in Callers :
    call[c].probe.kind = "ok"
      => /\ call[c].pc = "done"
         /\ call[c].result.isAuthenticated
              <=> call[c].probe.body \in {"user", "walletAddress"}
         /\ call[c].logins = (IF call[c].soon THEN 1 ELSE 0)

\* C10 witness: a locally valid session, the probe answered 200 with neither field
C10_Witness ==
  \E c \in Callers :
    /\ call[c].pc = "done"
    /\ ~call[c].soon
    /\ call[c].probe.kind = "ok"
    /\ call[c].probe.body = "empty"
    /\ call[c].result = Result(FALSE, "Authentication validation failed")

\* C11: whenever checkAuthState starts on a stored session whose token decodes
\* and carries an exp claim (any number of seconds, past ones included), it takes
\* the refresh path exactly when exp * 1000 - now is under ten minutes and the
\* probe path otherwise; exactly ten minutes remaining goes to the probe
C11_ExpiryClassification ==
  [][\A c \in Callers :
       ( /\ call[c].pc \in {"idle", "done"}
         /\ call'[c].pc \in {"refresh1", "probe"}
         /\ SplitLength(store.token) = 3
         /\ PayloadDecodes(store.token)
         /\ PayloadHasExp(store.token) )
       => ( call'[c].pc = "refresh1"
              <=> PayloadExp(store.token) * 1000 - now < TenMinutesMs )]_vars

\* C12: a call that found the session locally valid and whose probe failed with
\* 401 sends exactly one login (and one probe); once it has returned,
\* isAuthenticated is true exactly when that login returned a token
C12_Probe401OneRefresh ==
  \A c \in Callers :
    ( /\ ~call[c].soon
      /\ call[c].probe.kind = "http"
      /\ call[c].probe.status = 401 )
    => /\ call[c].pc \in {"refresh2", "done"}
       /\ call[c].logins = 1
       /\ call[c].probes = 1
       /\ call[c].pc = "done"
            => ( call[c].result.isAuthenticated
                   <=> call[c].refreshResponse # None )

C12_Witness ==
  \E c \in Callers :
    /\ ~call[c].soon
    /\ call[c].probe.kind = "http"
    /\ call[c].probe.status = 401
    /\ call[c].pc = "done"
    /\ call[c].logins = 1
    /\ call[c].refreshResponse # None
    /\ call[c].result = Result(TRUE, "Authentication refreshed successfully")

\* C13: a call whose probe failed with anything but 401 has returned false with
\* the probe's error and sent no login after the probe: none at all when the
\* session was locally valid, only the earlier expiry refresh otherwise
C13_OtherProbeFailureNoRefresh ==
  \A c \in Callers :
    ( /\ call[c].probe.kind \in {"http", "network"}
      /\ ~(call[c].probe.kind = "http" /\ call[c].probe.status = 401) )
    => /\ call[c].pc = "done"
       /\ call[c].result =
            Result(FALSE, "Authentication validation failed: "
                             \o MessageOrUnknown(call[c].probe.message))
       /\ call[c].refreshResponse = None
       /\ call[c].logins = (IF call[c].soon THEN 1 ELSE 0)

C13_Witness ==
  \E c \in Callers :
    /\ ~call[c].soon
    /\ call[c].probe.kind = "http"
    /\ call[c].probe.status = 500
    /\ call[c].pc = "done"
    /\ call[c].logins = 0
    /\ ~call[c].result.isAuthenticated

\* C14: when the login sent by the expiry branch returns a token, that step
\* writes the returned token (with the wallet address the call read) to the
\* store and the call returns true, having sent one login and no probe
C14_ExpiryRefreshStoresToken ==
  [][\A c \in Callers :
       ( /\ call[c].pc = "refresh1"
         /\ call'[c].refreshResponse # None )
       => /\ call'[c].pc = "done"
          /\ call'[c].result = Result(TRUE, "Authentication refreshed successfully")
          /\ call'[c].logins = 1
          /\ call'[c].probes = 0
          /\ store' = StoreLogin(call'[c].refreshResponse, call[c].walletAddress)]_vars

C14_Witness ==
  \E c \in Callers :
    /\ call[c].soon
    /\ call[c].pc = "done"
    /\ call[c].logins = 1
    /\ call[c].probes = 0
    /\ call[c].refreshResponse # None
    /\ call[c].result.isAuthenticated
    /\ store.token = call[c].refreshResponse

\* C15: when the POST of a loginWithWallet call settles with a successful
\* response that carries no token, the call throws its missing-token Error and
\* both stored keys are exactly what they were before
C15_LoginWithoutTokenKeepsStore ==
  [][( /\ connect.pc = "inflight"
       /\ connect'.pc = "settled"
       /\ connect'.response.kind = "ok"
       /\ connect'.response.token = None )
     => /\ store' = store
        /\ connect'.error =
             "Failed to login with wallet: Authentication failed: server response missing token"]_vars

C15_Witness ==
  /\ connect.pc = "settled"
  /\ connect.response.kind = "ok"
  /\ connect.response.token = None
  /\ connect.error # None
  /\ store = StoreLogin("tNear", "0xAbC")

\* C16: when checkAuthState starts on a stored session whose token does not
\* split in three segments or whose payload does not decode, and reading the
\* store did not throw, the call sends the liveness probe: it has neither
\* returned nor sent a login, so the probe decides its outcome
C16_UndecodableTokenGoesToProbe ==
  [][\A c \in Callers :
       ( /\ call[c].pc \in {"idle", "done"}
         /\ call'[c] # call[c]
         /\ Truthy(store.token)
         /\ Truthy(store.walletAddress)
         /\ SplitLength(store.token) # 3 \/ ~PayloadDecodes(store.token)
         /\ call'[c].result.message
              # "Authentication check failed: The operation is insecure." )
       => /\ call'[c].pc = "probe"
          /\ ~call'[c].soon
          /\ call'[c].logins = 0
          /\ call'[c].probes = 1
          /\ call'[c].result = NoResult]_vars

C16_Witness ==
  \E c \in Callers :
    /\ store.token \in {"tOpaque", "tBadPayload"}
    /\ call[c].pc = "done"
    /\ ~call[c].soon
    /\ call[c].logins = 0
    /\ call[c].probe.kind = "ok"
    /\ call[c].result = Result(TRUE, "Authentication validated successfully")

\* C17: two calls that are both on the expiry branch have each sent their own
\* login; whenever one of them gets its token while the other is still waiting
\* or has already got one, that step stores exactly the token just returned (so
\* after both the store holds the later writer's token, never anything else)
\* and every such call that has returned, returned true
C17_ConcurrentRefreshLastWriteWins ==
  [][\A c, d \in Callers :
       ( /\ c # d
         /\ call[c].pc = "refresh1"
         /\ call'[c].refreshResponse # None
         /\ call[d].soon
         /\ call[d].probes = 0
         /\ \/ call[d].pc = "refresh1"
            \/ call[d].pc = "done" /\ call[d].refreshResponse # None )
       => /\ call[c].logins = 1
          /\ call[d].logins = 1
          /\ store'.token = call'[c].refreshResponse
          /\ call'[c].result = Result(TRUE, "Authentication refreshed successfully")
          /\ call[d].pc = "done" => call'[d].result.isAuthenticated]_vars

C17_Witness ==
  \E c, d \in Callers :
    /\ c # d
    /\ call[c].soon /\ call[c].pc = "done" /\ call[c].probes = 0
    /\ call[d].soon /\ call[d].pc = "done" /\ call[d].probes = 0
    /\ call[c].result.isAuthenticated
    /\ call[d].result.isAuthenticated
    /\ call[c].refreshResponse = "tFar"
    /\ call[d].refreshResponse = "tTen"
    /\ store.token = "tTen"

\* C18: when handleSubmit registers the id that is pending already (its first
\* polling run still alive), nothing restarts: the interval, the effect run, the
\* number of checks sent and the checks in flight are what they were, and the
\* one interval alive is the one of the pending id
C18_SameIdRegisteredOnce ==
  [][( /\ mint = "inflight"
       /\ mint' = "reregistered" )
     => /\ pendingBackgroundId' = pendingBackgroundId
        /\ intervalId' = intervalId
        /\ intervalId' = [id |-> pendingBackgroundId, run |-> run]
        /\ run' = run
        /\ checks' = checks
        /\ inflight' = inflight]_vars

C18_Witness ==
  /\ mint = "reregistered"
  /\ TruthyId(pendingBackgroundId)
  /\ run = 1
  /\ checks = 1
  /\ inflight = {[id |-> pendingBackgroundId, run |-> 1, seq |-> 1]}
  /\ intervalId = [id |-> pendingBackgroundId, run |-> 1]
  /\ toasts = <<>>

\* C19: the step in which a status check publishes a terminal notification
\* leaves no interval alive and, while the page is mounted, no pending id; from
\* then on the interval of that polling run is never alive again and no check
\* is sent for that run
C19_TerminalStopsPolling ==
  /\ [](\A i \in 1..Len(toasts) : intervalId.run # toasts[i].run)
  /\ [][/\ Len(toasts') > Len(toasts)
           => /\ intervalId' = NoTimer
              /\ mounted => pendingBackgroundId' = NullId
        /\ \A chk \in inflight' \ inflight :
             \A i \in 1..Len(toasts) : toasts[i].run # chk.run]_vars

C19_Witness ==
  /\ mounted
  /\ Len(toasts) = 1
  /\ ~toasts[1].stale
  /\ toasts[1].run = run
  /\ intervalId = NoTimer
  /\ pendingBackgroundId = NullId
  /\ checks < MaxChecks

\* C20: a step in which checkBackgroundStatus handles a response that is not
\* terminal (pending, unknown, confirmed without a blockchain id) or the Error
\* verifyBackgroundStatus threw publishes nothing and leaves the pending id and
\* the interval as they were; and whenever the mounted page has a pending id its
\* interval is alive, however many checks have been sent, so the next tick
\* sends another check
C20_NonTerminalKeepsPolling ==
  /\ []((mounted /\ TruthyId(pendingBackgroundId))
          => intervalId = [id |-> pendingBackgroundId, run |-> run])
  /\ [][\A chk \in inflight :
          \A status \in {"pending", "confirmedNoId", "unknown", "error"} :
            CheckResponse(chk, status)
              => /\ toasts' = toasts
                 /\ pendingBackgroundId' = pendingBackgroundId
                 /\ intervalId' = intervalId
                 /\ run' = run
                 /\ checks' = checks]_vars

C20_Witness ==
  /\ mounted
  /\ TruthyId(pendingBackgroundId)
  /\ run = 1
  /\ checks = 2
  /\ inflight = {}
  /\ toasts = <<>>
  /\ intervalId = [id |-> pendingBackgroundId, run |-> 1]

\* C22: an emit has invoked, in registration order and before it returned, every
\* handler that was registered for the event type when it began (with handlers
\* that do not touch the registry, those are the ones registered when it ended)
C22_EmitInvokesAllInOrder ==
  lastBus.op = "emit" => lastBus.invoked = listeners[lastBus.type]

\* C23: an emit invokes only registrations that existed when it began, so none
\* made by a handler during it; and when the emit before left such a
\* registration behind, the next emit of that type invokes it
C23_SubscribeDuringEmit ==
  [][\A type \in EventTypes :
       Emit(type)
         => /\ Len(lastBus'.invoked) <= Len(listeners[type])
            /\ lastBus'.invoked = SubSeq(listeners[type], 1, Len(lastBus'.invoked))
            /\ ( /\ lastBus.op = "emit"
                 /\ lastBus.type = type
                 /\ lastBus.fresh > 0 )
               => lastBus'.invoked = listeners[type]]_vars

\* C28: a handler is not invoked after its unsubscribe function has returned,
\* also when an earlier handler of the same emit called that function
C28_UnsubscribedNeverInvoked ==
  lastBus.op = "emit"
    => \A i, j \in 1..Len(lastBus.invoked) :
         (i < j /\ Unsubscribes(lastBus.invoked[i])) => lastBus.invoked[j] # "hB"

\* C21: once CreateBackground is unmounted no interval of it is alive, and no
\* step sends a status check any more (neither a tick nor a registration)
C21_UnmountStopsTimers ==
  /\ [](~mounted => intervalId = NoTimer)
  /\ [][~mounted => (checks' = checks /\ inflight' \subseteq inflight)]_vars

C21_Witness ==
  /\ ~mounted
  /\ TruthyId(pendingBackgroundId)
  /\ run = 1
  /\ checks = 2
  /\ inflight # {}
  /\ toasts = <<>>
  /\ intervalId = NoTimer

\* C26: a step in which a check sent for an operation that has since been
\* replaced publishes its terminal notification leaves the pending id and the
\* interval of the operation that replaced it as they are
C26_StaleTerminalSparesSuccessor ==
  [][( /\ Len(toasts') = Len(toasts) + 1
       /\ mounted
       /\ TruthyId(pendingBackgroundId)
       /\ toasts'[Len(toasts')].run # intervalId.run
       /\ toasts'[Len(toasts')].id # pendingBackgroundId )
     => /\ pendingBackgroundId' = pendingBackgroundId
        /\ intervalId' = intervalId]_vars

\* C29: an interval that is alive is the one of the current pending id and of
\* the latest effect run of the mounted page, and every check a step sends is
\* for that id and that run: an operation that was replaced gets no more checks
C29_OneTimerForCurrentId ==
  /\ [](intervalId # NoTimer
          => /\ mounted
             /\ intervalId = [id |-> pendingBackgroundId, run |-> run])
  /\ [][\A chk \in inflight' \ inflight :
          /\ chk.id = pendingBackgroundId'
          /\ chk.run = run'
          /\ intervalId' = [id |-> chk.id, run |-> chk.run]]_vars

C29_Witness ==
  /\ run = 2
  /\ checks = 3
  /\ intervalId = [id |-> pendingBackgroundId, run |-> 2]
  /\ [id |-> pendingBackgroundId, run |-> 2, seq |-> 3] \in inflight
  /\ \E chk \in inflight : chk.run = 1 /\ chk.id # pendingBackgroundId
  /\ toasts = <<>>

\* C24: a checkAuthState call is never left by an exception: it is waiting for a
\* login or the probe, or it has returned a result with a message, whatever the
\* storage read, the token decoding, the probe and the logins did
C24_CheckAuthStateNeverThrows ==
  \A c \in Callers :
    /\ call[c].pc \in {"idle", "refresh1", "probe", "refresh2", "done"}
    /\ call[c].pc = "done"
         => /\ call[c].result.message # None
            /\ call[c].result.isAuthenticated \in BOOLEAN
    /\ call[c].pc # "done" => call[c].result = NoResult

C24_Witness ==
  \E c, d \in Callers :
    /\ call[c].pc = "done"
    /\ call[c].result =
         Result(FALSE, "Authentication check failed: The operation is insecure.")
    /\ call[d].pc = "done"
    /\ call[d].soon
    /\ call[d].probe.kind = "network"
    /\ call[d].result =
         Result(FALSE, "Authentication validation failed: Network Error")

\* C27: a login that checkAuthState sent before logout() emptied the store does
\* not write a token or a wallet address back when its response arrives
C27_LogoutBeatsInflightLogin ==
  [][\A c \in Callers :
       ( /\ call[c].pc \in {"refresh1", "refresh2"}
         /\ call'[c].pc # call[c].pc
         /\ store = EmptyStore )
       => store' = EmptyStore]_vars

\* C30: clicking either transfer-type button at step 0 advances activeStep
\* from 0 to 1 with the chosen transferType and no error set, and in every
\* reachable state activeStep is within 0..2
C30_TransferTypeClickAdvances ==
  /\ [](wizard.activeStep \in 0..2)
  /\ [][\A t \in TransferTypes :
          ClickTransferType(t) =>
            /\ wizard'.activeStep = 1
            /\ wizard'.transferType = t
            /\ wizard'.error = None]_vars

\* the effect run r has published a terminal notification
Published(r) == \E i \in 1..Len(toasts) : toasts[i].run = r

\* the interval of effect run r is alive
Polling(r) == intervalId # NoTimer /\ intervalId.run = r

\* the registration of effect run r was replaced by a later one or by a falsy
\* id, or the view was torn down, or the run has used up the checks and
\* notifications the model allows
Released(r) ==
  \/ run > r
  \/ pendingBackgroundId = 0
  \/ ~mounted
  \/ checks = MaxChecks
  \/ Len(toasts) = MaxToasts

\* C25: under fair ticks and responses, if from some point on every status
\* check is answered confirmed with a confirmation id or failed, then every
\* operation being polled that is neither replaced nor torn down eventually
\* publishes its terminal notification and its polling stops
C25_TerminalAnswersEndPolling ==
  (<>[][~NonTerminalResponse]_vars) =>
    \A r \in 1..MaxChecks :
      [](Polling(r) => <>((Published(r) /\ ~Polling(r)) \/ Released(r)))

====
